---- MODULE Spec2Model ----
(***************************************************************************)
(* Model of monitor.py: the polling loop of run_monitor, its threshold     *)
(* decision (is_above / currently_above / hysteresis band) and its         *)
(* reconnect and shutdown paths.                                           *)
(*                                                                         *)
(* Temperatures are fixed-point numbers in tenths of a degree (285 is      *)
(* 28.5).  A float NaN coming out of the database is the value NaN, for    *)
(* which every ordered comparison is false, as in IEEE arithmetic.         *)
(***************************************************************************)
EXTENDS Integers, Sequences, FiniteSets, TLC

\* ---------------------------------------------------------------- values

\* float('nan'): a reading of a float column that holds NaN
NaN == 9999

\* fetch_latest_temp returned None (no row)
NoRow == 9998

\* THRESHOLD example of the module docstring (28.5) and HYSTERESIS default (0.3)
ExampleThreshold == 285
DefaultHysteresis == 3

\* is_above: None, False, True
Unknown == "Unknown"
Below == "Below"
Above == "Above"
Phases == {Unknown, Below, Above}

\* the temperatures float(row[0]) can yield, around the threshold and its band
Readings == {281, 282, 284, 285, 290, 300, NaN}

Thresholds == {ExampleThreshold}
Hystereses == {0, DefaultHysteresis}

\* a > b on floats: false as soon as one side is NaN
Gt(a, b) == a # NaN /\ b # NaN /\ a > b

\* a <= b on floats: false as soon as one side is NaN
Le(a, b) == a # NaN /\ b # NaN /\ a <= b

VARIABLES
    pc,             \* where run_monitor is: connect, fetch, send, sleep, backoff, done, crashed
    conn,           \* TRUE while the with-block holds a psycopg2 connection
    is_above,       \* the alert state
    threshold,      \* configuration, read once at start
    hysteresis,
    on_above_only,
    latest,         \* result of the last fetch_latest_temp: a reading or NoRow
    cur,            \* the reading being processed and what was done for it
    prev,           \* the reading processed before cur
    last,           \* the step taken last
    interrupted,    \* a KeyboardInterrupt has been raised
    run             \* what was done for the readings, handled in a row, that follow Example

vars == <<pc, conn, is_above, threshold, hysteresis, on_above_only,
          latest, cur, prev, last, interrupted, run>>

config == <<threshold, hysteresis, on_above_only>>

\* ------------------------------------------------------------- decision

\* a >= b on floats
Ge(a, b) == a # NaN /\ b # NaN /\ a >= b

\* variant: the comparison written temp >= threshold
currently_above_ge(temp, thr) == Ge(temp, thr)

\* currently_above = temp > threshold
currently_above(temp, thr) == Gt(temp, thr)

\* variant: the band test written temp >= (threshold - hysteresis)
in_band_inclusive(temp, thr, hys) == hys > 0 /\ Ge(temp, thr - hys)

\* variant: the band test left out, recovery as soon as temp <= threshold
in_band_off(temp, thr, hys) == FALSE

\* hysteresis > 0 and temp > (threshold - hysteresis)
in_band(temp, thr, hys) == hys > 0 /\ Gt(temp, thr - hys)

\* variant: the "is_above is None" branch does not shield the first
\* reading, so None counts as not-above and a first reading above alerts
send_status_first_alerts(phase, temp, thr, hys, only) ==
    IF phase # Above /\ currently_above(temp, thr) THEN "ALERT"
    ELSE IF phase = Above /\ ~currently_above(temp, thr)
         THEN IF in_band(temp, thr, hys) THEN "None"
              ELSE IF ~only THEN "RECOVERED" ELSE "None"
    ELSE "None"

\* variant: no memory of having alerted, an alert for every reading above
send_status_spam(phase, temp, thr, hys, only) ==
    IF phase = Unknown THEN "None"
    ELSE IF currently_above(temp, thr) THEN "ALERT"
    ELSE IF phase = Above
         THEN IF in_band(temp, thr, hys) THEN "None"
              ELSE IF ~only THEN "RECOVERED" ELSE "None"
    ELSE "None"

\* the message status that send_logic_app is called with for this reading,
\* "None" when the branch taken sends nothing
send_status(phase, temp, thr, hys, only) ==
    IF phase = Unknown THEN "None"
    ELSE IF phase = Below /\ currently_above(temp, thr) THEN "ALERT"
    ELSE IF phase = Above /\ ~currently_above(temp, thr)
         THEN IF in_band(temp, thr, hys) THEN "None"
              ELSE IF ~only THEN "RECOVERED" ELSE "None"
    ELSE "None"

\* the value is_above has when the branch runs to its end
\* (every send_logic_app call of the branch returned)
branch_result(phase, temp, thr, hys) ==
    IF phase = Unknown
    THEN IF currently_above(temp, thr) THEN Above ELSE Below
    ELSE IF phase = Below /\ currently_above(temp, thr) THEN Above
    ELSE IF phase = Above /\ ~currently_above(temp, thr)
         THEN IF in_band(temp, thr, hys) THEN Above ELSE Below
    ELSE phase

\* the readings of the end-to-end scenario of C16: 29.0, 28.4, 28.1, 30.0
Example == <<290, 284, 281, 300>>

\* the record of the example run after a reading t, found in phase pre, has
\* been handled to the end of its branch with is_above = post and the
\* message status ev: the run grows while the readings follow Example, and
\* starts again at a reading Example[1] found in phase Below
Observe(r, pre, t, post, ev) ==
    LET entry == [temp |-> t, phase |-> post, ev |-> ev] IN
    IF r # <<>> /\ Len(r) < Len(Example) /\ t = Example[Len(r) + 1]
    THEN Append(r, entry)
    ELSE IF pre = Below /\ t = Example[1] THEN <<entry>> ELSE <<>>

NoCycle == [pre |-> Unknown, temp |-> NoRow, ev |-> "None", out |-> "init", n |-> 0]

\* ----------------------------------------------------------------- init

Init ==
    /\ pc = "connect"
    /\ conn = FALSE
    /\ is_above = Unknown
    /\ threshold \in Thresholds
    /\ hysteresis \in Hystereses
    /\ on_above_only \in BOOLEAN
    /\ latest = NoRow
    /\ cur = NoCycle
    /\ prev = NoCycle
    /\ last = "Start"
    /\ interrupted = FALSE
    /\ run = <<>>

\* -------------------------------------------------------------- actions

\* psycopg2.connect(db_url) returns a connection
ConnectOk ==
    /\ pc = "connect"
    /\ pc' = "fetch"
    /\ conn' = TRUE
    /\ last' = "ConnectOk"
    /\ UNCHANGED <<is_above, config, latest, cur, prev, interrupted, run>>

\* variant: psycopg2.connect called outside the try, its error ends the run
ConnectFail_raises ==
    /\ pc = "connect"
    /\ pc' = "crashed"
    /\ conn' = FALSE
    /\ last' = "ConnectFail"
    /\ UNCHANGED <<is_above, config, latest, cur, prev, interrupted, run>>

\* psycopg2.connect(db_url) raises: except Exception, then the 5 s wait
ConnectFail ==
    /\ pc = "connect"
    /\ pc' = "backoff"
    /\ conn' = FALSE
    /\ last' = "ConnectFail"
    /\ UNCHANGED <<is_above, config, latest, cur, prev, interrupted, run>>

\* fetch_latest_temp raises (connection lost, bad row): leaves the with-block
FetchFail ==
    /\ pc = "fetch"
    /\ pc' = "backoff"
    /\ conn' = FALSE
    /\ last' = "FetchFail"
    /\ UNCHANGED <<is_above, config, latest, cur, prev, interrupted, run>>

\* variant: a continue after the warning, the poll sleep is skipped
FetchEmpty_continue ==
    /\ pc = "fetch"
    /\ latest' = NoRow
    /\ pc' = "fetch"
    /\ last' = "FetchEmpty"
    /\ UNCHANGED <<conn, is_above, config, cur, prev, interrupted, run>>

\* variant: no row treated as an error of the connection
FetchEmpty_as_failure ==
    /\ pc = "fetch"
    /\ latest' = NoRow
    /\ pc' = "backoff"
    /\ conn' = FALSE
    /\ last' = "FetchEmpty"
    /\ UNCHANGED <<is_above, config, cur, prev, interrupted, run>>

\* fetch_latest_temp returns None: warning, then time.sleep(poll_seconds)
FetchEmpty ==
    /\ pc = "fetch"
    /\ latest' = NoRow
    /\ pc' = "sleep"
    /\ last' = "FetchEmpty"
    /\ UNCHANGED <<conn, is_above, config, cur, prev, interrupted, run>>

\* fetch_latest_temp returns a row; the if/elif chain runs up to its
\* send_logic_app call, or to its end when the branch sends nothing
FetchRow(t) ==
    /\ pc = "fetch"
    /\ latest' = t
    /\ last' = "FetchRow"
    /\ prev' = cur
    /\ LET st == send_status(is_above, t, threshold, hysteresis, on_above_only) IN
       IF st = "None"
       THEN /\ is_above' = branch_result(is_above, t, threshold, hysteresis)
            /\ cur' = [pre |-> is_above, temp |-> t, ev |-> "None", out |-> "none", n |-> 0]
            /\ run' = Observe(run, is_above, t, is_above', "None")
            /\ pc' = "sleep"
       ELSE /\ is_above' = is_above
            /\ cur' = [pre |-> is_above, temp |-> t, ev |-> st, out |-> "pending", n |-> 0]
            /\ run' = run
            /\ pc' = "send"
    /\ UNCHANGED <<conn, config, interrupted>>

\* variant: the assignment to is_above after send_logic_app is missing
SendOk_keeps ==
    /\ pc = "send"
    /\ is_above' = is_above
    /\ cur' = [cur EXCEPT !.out = "ok", !.n = @ + 1]
    /\ run' = Observe(run, cur.pre, cur.temp, is_above', cur.ev)
    /\ pc' = "sleep"
    /\ last' = "SendOk"
    /\ UNCHANGED <<conn, config, latest, prev, interrupted>>

\* send_logic_app returns: the assignment to is_above after it runs
SendOk ==
    /\ pc = "send"
    /\ is_above' = branch_result(is_above, cur.temp, threshold, hysteresis)
    /\ cur' = [cur EXCEPT !.out = "ok", !.n = @ + 1]
    /\ run' = Observe(run, cur.pre, cur.temp, is_above', cur.ev)
    /\ pc' = "sleep"
    /\ last' = "SendOk"
    /\ UNCHANGED <<conn, config, latest, prev, interrupted>>

\* variant: is_above assigned before send_logic_app is called
SendFail_advances ==
    /\ pc = "send"
    /\ is_above' = branch_result(is_above, cur.temp, threshold, hysteresis)
    /\ cur' = [cur EXCEPT !.out = "fail", !.n = @ + 1]
    /\ run' = <<>>
    /\ pc' = "backoff"
    /\ conn' = FALSE
    /\ last' = "SendFail"
    /\ UNCHANGED <<config, latest, prev, interrupted>>

\* variant: the delivery error is caught and logged where it happens, the
\* loop goes on to its poll sleep on the same connection
SendFail_logged ==
    /\ pc = "send"
    /\ cur' = [cur EXCEPT !.out = "fail", !.n = @ + 1]
    /\ run' = <<>>
    /\ pc' = "sleep"
    /\ last' = "SendFail"
    /\ UNCHANGED <<conn, is_above, config, latest, prev, interrupted>>

\* variant: a failed delivery is sent again at once for the same reading
SendFail_retries ==
    /\ pc = "send"
    /\ cur' = [cur EXCEPT !.n = @ + 1]
    /\ run' = <<>>
    /\ last' = "SendFail"
    /\ UNCHANGED <<pc, conn, is_above, config, latest, prev, interrupted>>

\* variant: the error path of a delivery clears the alert state
SendFail_resets ==
    /\ pc = "send"
    /\ is_above' = Unknown
    /\ cur' = [cur EXCEPT !.out = "fail", !.n = @ + 1]
    /\ run' = <<>>
    /\ pc' = "backoff"
    /\ conn' = FALSE
    /\ last' = "SendFail"
    /\ UNCHANGED <<config, latest, prev, interrupted>>

\* send_logic_app raises (RequestException, HTTP error status): the
\* assignment after it is skipped, the with-block is left, except Exception
SendFail ==
    /\ pc = "send"
    /\ cur' = [cur EXCEPT !.out = "fail", !.n = @ + 1]
    /\ run' = <<>>
    /\ pc' = "backoff"
    /\ conn' = FALSE
    /\ last' = "SendFail"
    /\ UNCHANGED <<is_above, config, latest, prev, interrupted>>

\* time.sleep(poll_seconds) returns: next iteration of the inner loop
Sleep ==
    /\ pc = "sleep"
    /\ pc' = "fetch"
    /\ last' = "Sleep"
    /\ UNCHANGED <<conn, is_above, config, latest, cur, prev, interrupted, run>>

\* variant: is_above = None placed inside the outer loop
Backoff_resets ==
    /\ pc = "backoff"
    /\ pc' = "connect"
    /\ is_above' = Unknown
    /\ last' = "Backoff"
    /\ UNCHANGED <<conn, config, latest, cur, prev, interrupted, run>>

\* time.sleep(5) returns: next iteration of the outer loop
Backoff ==
    /\ pc = "backoff"
    /\ pc' = "connect"
    /\ last' = "Backoff"
    /\ UNCHANGED <<conn, is_above, config, latest, cur, prev, interrupted, run>>

\* KeyboardInterrupt.  Inside the try it is caught and the loop is left
\* (break); inside the except Exception handler no clause catches it and it
\* leaves run_monitor as an unhandled exception.
Interrupt ==
    /\ pc \in {"connect", "fetch", "send", "sleep", "backoff"}
    /\ interrupted' = TRUE
    /\ pc' = IF pc = "backoff" THEN "crashed" ELSE "done"
    /\ conn' = FALSE
    /\ cur' = IF pc = "send" THEN [cur EXCEPT !.out = "interrupted"] ELSE cur
    /\ last' = "Interrupt"
    /\ UNCHANGED <<is_above, config, latest, prev, run>>

Next ==
    \/ ConnectOk
    \/ ConnectFail
    \/ FetchFail
    \/ FetchEmpty
    \/ \E t \in Readings : FetchRow(t)
    \/ SendOk
    \/ SendFail
    \/ Sleep
    \/ Backoff
    \/ Interrupt

Spec == Init /\ [][Next]_vars

\* the loop's own steps are taken when they can be; nothing obliges the
\* operator to interrupt
LoopStep ==
    \/ ConnectOk
    \/ ConnectFail
    \/ FetchFail
    \/ FetchEmpty
    \/ \E t \in Readings : FetchRow(t)
    \/ SendOk
    \/ SendFail
    \/ Sleep
    \/ Backoff

FairSpec == Spec /\ WF_vars(LoopStep)

TypeOK ==
    /\ pc \in {"connect", "fetch", "send", "sleep", "backoff", "done", "crashed"}
    /\ conn \in BOOLEAN
    /\ is_above \in Phases
    /\ latest \in Readings \cup {NoRow}
    /\ cur.ev \in {"None", "ALERT", "RECOVERED"}
    /\ cur.n \in 0..1

\* --------------------------------------------------------------- claims

\* the reading of cur has been handled to the end of its branch, or its
\* send_logic_app call has raised
Settled == cur.out \in {"none", "ok", "fail"}

C4_InBandHold ==
    (cur.pre = Above /\ hysteresis > 0
        /\ Gt(cur.temp, threshold - hysteresis) /\ Le(cur.temp, threshold))
        => (is_above = Above /\ cur.ev = "None" /\ cur.out = "none" /\ cur.n = 0)

C4_Witness ==
    /\ cur.pre = Above
    /\ hysteresis > 0
    /\ Gt(cur.temp, threshold - hysteresis)
    /\ Le(cur.temp, threshold)
    /\ is_above = Above
    /\ pc = "sleep"

\* C5: the first reading ever processed finds the phase Unknown, sets it to
\* Above when value > threshold and to Below when value <= threshold, and
\* attempts no delivery.
C5_FirstObservation ==
    /\ (prev.out = "init" /\ cur.out # "init") => cur.pre = Unknown
    /\ cur.pre = Unknown
        => /\ cur.ev = "None"
           /\ cur.n = 0
           /\ prev.out = "init"
           /\ (cur.out # "init" /\ Gt(cur.temp, threshold)) => is_above = Above
           /\ (cur.out # "init" /\ Le(cur.temp, threshold)) => is_above = Below

C5_Witness ==
    /\ cur.pre = Unknown
    /\ cur.out = "none"
    /\ Gt(cur.temp, threshold)
    /\ is_above = Above
    /\ pc = "sleep"

\* a reading that does not cross: above the threshold while Above, inside
\* the band while Above, at or under the threshold while Below
NonCrossing(phase, temp) ==
    \/ phase = Above /\ Gt(temp, threshold)
    \/ phase = Above /\ hysteresis > 0 /\ Gt(temp, threshold - hysteresis)
                     /\ Le(temp, threshold)
    \/ phase = Below /\ Le(temp, threshold)

\* C6: a reading that does not cross leaves the phase as it is and attempts
\* no delivery, also when such readings follow one another.
C6_SteadyState ==
    /\ NonCrossing(cur.pre, cur.temp)
        => (is_above = cur.pre /\ cur.ev = "None" /\ cur.out = "none" /\ cur.n = 0)
    /\ (NonCrossing(prev.pre, prev.temp) /\ NonCrossing(cur.pre, cur.temp))
        => (cur.pre = prev.pre /\ prev.ev = "None")

C6_Witness ==
    /\ NonCrossing(prev.pre, prev.temp)
    /\ NonCrossing(cur.pre, cur.temp)
    /\ prev.temp = cur.temp
    /\ cur.pre = Above
    /\ is_above = Above

\* C7 as stated: every change of the phase to Above happens on a reading
\* above the threshold, and every change to Below, the one out of Unknown
\* included, on a reading at or under threshold - hysteresis.
C7_Original ==
    [][is_above' # is_above
        => /\ is_above' = Above => Gt(cur'.temp, threshold)
           /\ is_above' = Below => Le(cur'.temp, threshold - hysteresis)]_vars

\* C7 amended: the phase changes to Above only on a reading above the
\* threshold; it changes from Above to Below only on a reading that is not
\* greater than threshold - hysteresis (for every number: value <=
\* threshold - hysteresis; a NaN reading also recovers); the change out of
\* Unknown goes to Below on any first reading that is not greater than the
\* threshold, values inside the hysteresis band included.
C7_TransitionGuards ==
    [][is_above' # is_above
        => /\ is_above' # Unknown
           /\ is_above' = Above => Gt(cur'.temp, threshold)
           /\ (is_above = Above /\ is_above' = Below)
                => ~Gt(cur'.temp, threshold - hysteresis)
           /\ (is_above = Above /\ is_above' = Below /\ cur'.temp # NaN)
                => Le(cur'.temp, threshold - hysteresis)
           /\ (is_above = Unknown /\ is_above' = Below)
                => ~Gt(cur'.temp, threshold)]_vars

C7_Witness ==
    /\ cur.pre = Above
    /\ is_above = Below
    /\ hysteresis > 0
    /\ Le(cur.temp, threshold - hysteresis)

\* C8: a failed connect, a failed fetch, the backoff wait and the connect
\* that follows leave the phase as it was; in particular it is not set back
\* to Unknown.
C8_ReconnectKeepsPhase ==
    [][last' \in {"ConnectFail", "FetchFail", "Backoff", "ConnectOk"}
        => is_above' = is_above]_vars

C8_Witness ==
    /\ last = "ConnectOk"
    /\ pc = "fetch"
    /\ is_above = Above
    /\ conn

\* C9: a fetch that returns no row changes neither the phase nor the record
\* of deliveries, keeps the connection, and goes to the poll sleep.
C9_EmptySkipped ==
    [][last' = "FetchEmpty"
        => /\ is_above' = is_above
           /\ cur' = cur
           /\ prev' = prev
           /\ conn' = TRUE
           /\ pc' = "sleep"]_vars

C9_Witness ==
    /\ last = "FetchEmpty"
    /\ pc = "sleep"
    /\ conn
    /\ is_above = Above

Terminated == pc \in {"done", "crashed"}

\* the step taken last was a recoverable error or an empty result
Recoverable == last \in {"ConnectFail", "FetchFail", "FetchEmpty", "SendFail"}

\* C10 as stated: without an operator interrupt the monitor does not
\* terminate, and after a recoverable error it is eventually at a fetch again.
C10_Original ==
    /\ [](Terminated => interrupted)
    /\ Recoverable ~> (pc = "fetch" \/ interrupted)

\* C10 amended: without an operator interrupt the monitor does not terminate,
\* and after a recoverable error it eventually attempts another connect or
\* another fetch; every successful connect is followed by a fetch attempt.
C10_NeverStops ==
    /\ [](Terminated => interrupted)
    /\ Recoverable ~> (pc \in {"connect", "fetch"} \/ interrupted)
    /\ [](last = "ConnectOk" => (pc = "fetch" \/ interrupted))

C10_Witness ==
    /\ last = "Backoff"
    /\ pc = "connect"
    /\ cur.out = "fail"
    /\ ~interrupted

\* C11: once an operator interrupt has been observed, at whatever point of
\* the loop, the monitor has left the loop through its shutdown path (the
\* except KeyboardInterrupt clause and its break), and no connect, fetch or
\* delivery step follows.
C11_GracefulCancel ==
    /\ [](interrupted => (pc = "done" /\ last = "Interrupt"))
    /\ [][interrupted => (last' = "Interrupt" /\ cur' = cur /\ conn' = FALSE)]_vars

\* the part of C11 that the code keeps: nothing is started after an interrupt
C11_NoNewCycle ==
    /\ [](interrupted => (Terminated /\ last = "Interrupt" /\ ~conn))
    /\ [][interrupted => UNCHANGED vars]_vars

\* the reading of prev was handled to the end of its branch, or its
\* send_logic_app call raised; the phase it left is the phase cur.pre that
\* the next reading found
PrevSettled == prev.out \in {"none", "ok", "fail"}

C13_UnknownInitialOnly ==
    /\ [](is_above = Unknown <=> cur.out = "init")
    /\ [](cur.out = "init" <=> cur = NoCycle)
    /\ [][is_above # Unknown => is_above' # Unknown]_vars

C13_Witness ==
    /\ is_above = Below
    /\ cur.out = "fail"
    /\ last = "ConnectOk"
    /\ latest # NoRow

\* C14: readings are handled one after the other in the order fetched: a row
\* is fetched only when the row before it is done with, it is decided on at
\* once against the phase that row left, the decision is not taken again, at
\* most one delivery is attempted for it, and a delivery attempt always
\* belongs to the row fetched last.
C14_Ordering ==
    /\ [](pc = "send" <=> cur.out = "pending")
    /\ [](cur.n = IF cur.out \in {"ok", "fail"} THEN 1 ELSE 0)
    /\ [](cur.ev = "None" <=> cur.out \in {"init", "none"})
    /\ [](latest # NoRow => latest = cur.temp)
    /\ [][last' = "FetchRow"
            => /\ cur.out # "pending"
               /\ prev' = cur
               /\ cur'.temp = latest'
               /\ cur'.pre = is_above
               /\ cur'.n = 0]_vars
    /\ [][last' \in {"SendOk", "SendFail"}
            => /\ cur.out = "pending"
               /\ cur.n = 0
               /\ cur'.n = 1
               /\ cur'.temp = cur.temp
               /\ cur'.temp = latest
               /\ cur'.ev = cur.ev
               /\ cur'.pre = cur.pre
               /\ prev' = prev]_vars
    /\ [][cur' # cur => last' \in {"FetchRow", "SendOk", "SendFail", "Interrupt"}]_vars
    /\ [][is_above' # is_above => last' \in {"FetchRow", "SendOk"}]_vars

C14_Witness ==
    /\ prev.ev = "ALERT"
    /\ prev.n = 1
    /\ prev.out = "ok"
    /\ cur.ev = "RECOVERED"
    /\ cur.n = 1
    /\ cur.out = "ok"
    /\ cur.pre = Above
    /\ is_above = Below

Expected ==
    << [temp |-> 290, phase |-> Above, ev |-> "ALERT"],
       [temp |-> 284, phase |-> Above, ev |-> "None"],
       [temp |-> 281, phase |-> Below, ev |-> "RECOVERED"],
       [temp |-> 300, phase |-> Above, ev |-> "ALERT"] >>

\* C16: with threshold 28.5, hysteresis 0.3 and recovery messages enabled,
\* the readings 29.0, 28.4, 28.1, 30.0 handled in that order from phase
\* Below, every delivery succeeding, give Alert/Above, nothing/Above,
\* Recovered/Below, Alert/Above.
C16_EndToEnd ==
    (threshold = 285 /\ hysteresis = 3 /\ ~on_above_only)
        => /\ Len(run) <= Len(Expected)
           /\ \A i \in 1..Len(run) : run[i] = Expected[i]

C16_Witness ==
    /\ threshold = 285
    /\ hysteresis = 3
    /\ ~on_above_only
    /\ run = Expected
    /\ is_above = Above

Fetches == {"FetchRow", "FetchEmpty", "FetchFail"}
Connects == {"ConnectOk", "ConnectFail"}

\* the step taken last ended a cycle without error on a live connection
CycleDone ==
    \/ last \in {"FetchEmpty", "SendOk"}
    \/ last = "FetchRow" /\ cur.out = "none"

\* C17: a cycle that ends without error is followed by one poll sleep and
\* then the next fetch; a failed connect or fetch is followed by one backoff
\* wait and then a connect attempt; a fetch is issued only on a connection
\* that a connect has returned.
C17_Cadence ==
    /\ [](CycleDone => (pc = "sleep" /\ conn))
    /\ [][last' = "Sleep" => (CycleDone /\ pc' = "fetch")]_vars
    /\ [][last' \in Fetches => (last \in {"Sleep", "ConnectOk"} /\ conn)]_vars
    /\ [](last \in {"ConnectFail", "FetchFail"} => (pc = "backoff" /\ ~conn))
    /\ [][last' = "Backoff"
            => (last \in {"ConnectFail", "FetchFail", "SendFail"} /\ pc' = "connect")]_vars
    /\ [][last' \in Connects => last \in {"Start", "Backoff"}]_vars
    /\ [](pc = "fetch" => (conn /\ last \in {"Sleep", "ConnectOk"}))

C17_Witness ==
    /\ last = "Sleep"
    /\ pc = "fetch"
    /\ latest = NoRow
    /\ cur.out = "ok"
    /\ prev.out = "fail"

\* C18: on a crossing that sends a message the phase changes only when
\* send_logic_app has returned: Below -> Above happens in the step in which
\* the Alert delivery succeeds, Above -> Below (recovery messages enabled) in
\* the step in which the Recovered delivery succeeds, and the phase is never
\* changed in a cycle whose delivery failed.
C18_PhaseAfterDelivery ==
    /\ [][(is_above = Below /\ is_above' = Above)
            => (last' = "SendOk" /\ cur.ev = "ALERT" /\ cur'.out = "ok")]_vars
    /\ [][(is_above = Above /\ is_above' = Below /\ ~on_above_only)
            => (last' = "SendOk" /\ cur.ev = "RECOVERED" /\ cur'.out = "ok")]_vars
    /\ [](cur.out = "fail" => is_above = cur.pre)
    /\ []((cur.ev # "None" /\ is_above # cur.pre) => cur.out = "ok")

C18_Witness ==
    /\ last = "SendOk"
    /\ cur.ev = "RECOVERED"
    /\ cur.out = "ok"
    /\ is_above = Below
    /\ prev.ev = "RECOVERED"
    /\ prev.out = "fail"

\* the Alert delivery for the reading of cur has failed
FailedAlert == cur.out = "fail" /\ cur.ev = "ALERT"

\* the hypotheses of C19 on the source and the operator are broken: an
\* operator interrupt, a connect or fetch that fails or returns no row, or a
\* row that is not above the threshold
SourceBroken ==
    \/ interrupted
    \/ last \in {"ConnectFail", "FetchFail", "FetchEmpty"}
    \/ last = "FetchRow" /\ ~Gt(cur.temp, threshold)

\* the loop's steps are taken when they can be, and the sink does not refuse
\* for ever: if deliveries keep being attempted, one of them is accepted
RetrySpec == FairSpec /\ SF_vars(SendOk)

\* retry to the end: a failed Alert delivery is followed by a delivered Alert
\* and the phase Above, unless the source or the operator breaks the run
RetriedToDelivery ==
    FailedAlert
        ~> ((cur.ev = "ALERT" /\ cur.out = "ok" /\ is_above = Above) \/ SourceBroken)

\* C19: after a failed Alert delivery the phase is still Below, and as long
\* as it is Below every processed reading above the threshold is an Alert
\* delivery attempt; if from then on the readings stay above the threshold,
\* the source stays reachable and the sink does not refuse for ever, an Alert
\* is eventually delivered and the phase becomes Above.
C19_RetryUntilDelivered ==
    /\ [](FailedAlert => is_above = Below)
    /\ []((is_above = Below /\ cur.out # "init" /\ Gt(cur.temp, threshold))
            => (cur.pre = Below /\ cur.ev = "ALERT" /\ cur.out # "ok"))
    /\ RetriedToDelivery

C19_Witness ==
    /\ prev.out = "fail"
    /\ prev.ev = "ALERT"
    /\ cur.ev = "ALERT"
    /\ cur.out = "ok"
    /\ is_above = Above
    /\ last = "SendOk"
    /\ ~interrupted

\* C20: a failed delivery takes the path of a source failure: the connection
\* is given up, the poll sleep of the cycle is skipped, the 5 s backoff wait
\* is taken, and the next fetch comes only after a new connect.
C20_DeliveryFailurePath ==
    /\ [][last' = "SendFail" => (conn /\ ~conn' /\ pc' = "backoff")]_vars
    /\ [](last = "SendFail" => (pc = "backoff" /\ ~conn))
    /\ [][last = "SendFail" => last' \in {"Backoff", "Interrupt"}]_vars
    /\ [][(last = "Backoff" /\ cur.out = "fail") => last' \in Connects \cup {"Interrupt"}]_vars
    /\ [][(~conn /\ conn') => last' = "ConnectOk"]_vars
    /\ [][last' \in Fetches => conn]_vars

C20_Witness ==
    /\ cur.out = "fail"
    /\ pc = "fetch"
    /\ last = "ConnectOk"
    /\ conn
    /\ prev.out = "ok"

====
